---- MODULE Spec2Model ----
(***************************************************************************)
(* A model of the 404-log tooling: the URL normaliser, the attack and      *)
(* user-agent classifiers (dashboard.py, analyzer.py), the two             *)
(* aggregation pipelines and the scraper's pagination loop                 *)
(* (real_scraper.py).                                                      *)
(*                                                                         *)
(* A Python str is a sequence of one-character strings; a missing value    *)
(* (pandas NaN) is the one value NaN, which is no such sequence.           *)
(***************************************************************************)
EXTENDS Integers, Sequences, FiniteSets

VARIABLES
    source_url,      \* the value handed to the normaliser (a str or NaN)
    variant,         \* "none", or the module whose enrichment ran
    normalized_url,  \* the enrichment's normalized_url
    is_attack,       \* the enrichment's attack flag: "true", "false", "nan", "raised"
    user_agent,      \* the value handed to classify_user_agent
    ua_class,        \* its result, or "none" before the call
    csv_state,       \* raw_404_logs.csv: "absent", "zero_bytes" or "table"
    csv_rows,        \* its data rows under the header: row -> number of copies
    run,             \* "idle", then how the run of the script ended
    ip_stats,        \* dashboard.py: ip -> its row of ip_stats
    url_stats,       \* dashboard.py: normalized_url -> its row of url_stats
    candidates,      \* dashboard.py: normalized_url -> its row of candidates
    ip_report,       \* analyzer.py: ip -> its row of ip_report
    url_report,      \* analyzer.py: normalized_url -> its row of url_report
    files,           \* the report files analyze has written
    page,            \* scrape_404s: the number of the page being scraped
    empty_streak,    \* scrape_404s: its counter of pages without rows
    all_rows,        \* scrape_404s: the rows collected so far
    visited,         \* the number of rows parse_table found on each page visited
    exit,            \* "loop", or how the loop or the call ended
    out_csv          \* the rows written to raw_404_logs.csv, "absent" before

enrich_vars == <<source_url, variant, normalized_url, is_attack>>

ua_vars == <<user_agent, ua_class>>

csv_vars == <<csv_state, csv_rows>>

dash_vars == <<ip_stats, url_stats, candidates>>

analyze_vars == <<ip_report, url_report, files>>

scrape_vars == <<page, empty_streak, all_rows, visited, exit, out_csv>>

vars ==
    <<enrich_vars, ua_vars, csv_vars, run, dash_vars, analyze_vars, scrape_vars>>

-----------------------------------------------------------------------------
(* Strings *)

NaN == <<"NaN">>

IsStr(v) == v # NaN

\* str(x): a str is itself, float nan prints as "nan".
Str(v) == IF v = NaN THEN <<"n", "a", "n">> ELSE v

Max(a, b) == IF a >= b THEN a ELSE b

\* s.find(c, start), 1-based: the first index >= start holding c, 0 when none.
Find(s, c, start) ==
    LET hits == {k \in Max(start, 1)..Len(s) : s[k] = c}
    IN  IF hits = {} THEN 0 ELSE CHOOSE k \in hits : \A j \in hits : k <= j

\* s.rfind(c), 1-based, 0 when none.
RFind(s, c) ==
    LET hits == {k \in 1..Len(s) : s[k] = c}
    IN  IF hits = {} THEN 0 ELSE CHOOSE k \in hits : \A j \in hits : k >= j

\* pat in s
Contains(s, pat) ==
    \E k \in 0..(Len(s) - Len(pat)) : SubSeq(s, k + 1, k + Len(pat)) = pat

\* s.endswith(pat)
EndsWith(s, pat) ==
    /\ Len(s) >= Len(pat)
    /\ SubSeq(s, Len(s) - Len(pat) + 1, Len(s)) = pat

UpperChars == <<"A", "B", "C", "D", "E", "F", "G", "H", "I", "J", "K", "L", "M",
                "N", "O", "P", "Q", "R", "S", "T", "U", "V", "W", "X", "Y", "Z">>

LowerChars == <<"a", "b", "c", "d", "e", "f", "g", "h", "i", "j", "k", "l", "m",
                "n", "o", "p", "q", "r", "s", "t", "u", "v", "w", "x", "y", "z">>

Digits == {"0", "1", "2", "3", "4", "5", "6", "7", "8", "9"}

IsAlpha(c) == \E k \in 1..26 : c = UpperChars[k] \/ c = LowerChars[k]

LowerChar(c) ==
    IF \E k \in 1..26 : c = UpperChars[k]
    THEN LowerChars[CHOOSE k \in 1..26 : c = UpperChars[k]]
    ELSE c

\* s.lower()
Lower(s) == [k \in 1..Len(s) |-> LowerChar(s[k])]

\* s.rstrip("/")
RStripSlash(s) ==
    LET keep == {k \in 1..Len(s) : s[k] # "/"}
    IN  IF keep = {} THEN <<>>
        ELSE SubSeq(s, 1, CHOOSE k \in keep : \A j \in keep : k >= j)

\* s.lstrip(" ")
LStripSpace(s) ==
    LET keep == {k \in 1..Len(s) : s[k] # " "}
    IN  IF keep = {} THEN <<>>
        ELSE SubSeq(s, CHOOSE k \in keep : \A j \in keep : k <= j, Len(s))

-----------------------------------------------------------------------------
(* urllib.parse.urlparse, as both normalisers call it *)

\* urllib.parse.scheme_chars
SchemeChars ==
    {UpperChars[k] : k \in 1..26} \cup {LowerChars[k] : k \in 1..26}
        \cup Digits \cup {"+", "-", "."}

\* urllib.parse.uses_params
UsesParams ==
    { <<>>,
      <<"f", "t", "p">>, <<"h", "d", "l">>,
      <<"p", "r", "o", "s", "p", "e", "r", "o">>,
      <<"h", "t", "t", "p">>, <<"i", "m", "a", "p">>,
      <<"h", "t", "t", "p", "s">>, <<"s", "h", "t", "t", "p">>,
      <<"r", "t", "s", "p">>, <<"r", "t", "s", "p", "s">>,
      <<"r", "t", "s", "p", "u">>, <<"s", "i", "p">>, <<"s", "i", "p", "s">>,
      <<"m", "m", "s">>, <<"s", "f", "t", "p">>, <<"t", "e", "l">> }

\* urlsplit's scheme step: url[:i] is a scheme when i > 0, url[0] is a letter
\* and every character of url[:i] is a scheme character.
SchemeEnd(url) ==
    LET i == Find(url, ":", 1)
    IN  IF /\ i > 1
           /\ IsAlpha(url[1])
           /\ \A k \in 1..(i - 1) : url[k] \in SchemeChars
        THEN i ELSE 0

\* _splitnetloc(url, 2): the index of the first of "/?#" after the "//",
\* or one past the end.
NetlocEnd(url) ==
    LET hits == {k \in 3..Len(url) : url[k] \in {"/", "?", "#"}}
    IN  IF hits = {} THEN Len(url) + 1
        ELSE CHOOSE k \in hits : \A j \in hits : k <= j

\* _splitparams(url): the path without the ";params" of its last segment.
SplitParams(url) ==
    LET i == IF Find(url, "/", 1) > 0
             THEN Find(url, ";", RFind(url, "/"))
             ELSE Find(url, ";", 1)
    IN  IF i = 0 THEN url ELSE SubSeq(url, 1, i - 1)

\* urlsplit's scheme: url[:i].lower(), or "" when there is none.
SchemeOf(url) ==
    IF SchemeEnd(url) > 0 THEN Lower(SubSeq(url, 1, SchemeEnd(url) - 1)) ELSE <<>>

\* urlsplit's url after the scheme and its colon are cut off.
AfterScheme(url) ==
    IF SchemeEnd(url) > 0 THEN SubSeq(url, SchemeEnd(url) + 1, Len(url)) ELSE url

\* url[:2] == '//'
HasNetloc(url) == Len(url) >= 2 /\ url[1] = "/" /\ url[2] = "/"

NetlocOf(url) ==
    IF HasNetloc(url) THEN SubSeq(url, 3, NetlocEnd(url) - 1) ELSE <<>>

AfterNetloc(url) ==
    IF HasNetloc(url) THEN SubSeq(url, NetlocEnd(url), Len(url)) ELSE url

\* urlsplit's bracket test on the netloc: ValueError("Invalid IPv6 URL").
InvalidIPv6(netloc) == (Find(netloc, "[", 1) > 0) # (Find(netloc, "]", 1) > 0)

\* url.split(c, 1)[0]
CutAt(url, c) ==
    IF Find(url, c, 1) > 0 THEN SubSeq(url, 1, Find(url, c, 1) - 1) ELSE url

\* urlparse's path: urlsplit's, without the params when the scheme has them.
PathOf(scheme, url) ==
    IF scheme \in UsesParams /\ Find(url, ";", 1) > 0 THEN SplitParams(url) ELSE url

\* urlsplit and urlparse on url, leading spaces already stripped.
UrlParts(url) ==
    [ raises |-> InvalidIPv6(NetlocOf(AfterScheme(url))),
      scheme |-> SchemeOf(url),
      netloc |-> NetlocOf(AfterScheme(url)),
      path   |-> PathOf(SchemeOf(url),
                        CutAt(CutAt(AfterNetloc(AfterScheme(url)), "#"), "?")) ]

\* urlparse(url) for a str: whether it raises, and the scheme, netloc and
\* path it returns otherwise.
urlparse(url) == UrlParts(LStripSpace(url))

\* urlparse raises on a value that is no str (AttributeError from _coerce_args)
\* and on a str with an unbalanced bracket in its netloc.
urlparse_raises(url) == url = NaN \/ urlparse(url).raises

-----------------------------------------------------------------------------
(* analyzer.py *)

\* normalize(url): the bare except returns url itself.
normalize(url) ==
    IF urlparse_raises(url) THEN url ELSE RStripSlash(urlparse(url).path)

\* df["normalized_url"].str.endswith(".php"): NaN stays NaN.
is_php(nurl) ==
    IF nurl = NaN THEN "nan"
    ELSE IF EndsWith(nurl, <<".", "p", "h", "p">>) THEN "true" ELSE "false"

-----------------------------------------------------------------------------
(* dashboard.py *)

\* normalize_url(url): the except clause returns str(url).
normalize_url(url) ==
    IF urlparse_raises(url) THEN Str(url) ELSE RStripSlash(urlparse(url).path)

\* The alternatives of the regular expression of is_php_attack.
AttackPatterns ==
    { <<".", "p", "h", "p">>,
      <<"w", "p", "-", "a", "d", "m", "i", "n">>,
      <<"w", "p", "-", "i", "n", "c", "l", "u", "d", "e", "s">>,
      <<".", "e", "n", "v">>,
      <<".", "g", "i", "t">> }

\* re.search(pattern, str(url), re.I): some alternative occurs in str(url),
\* letters compared without case.
is_php_attack(url) ==
    \E pat \in AttackPatterns : Contains(Lower(Str(url)), pat)

BoolStr(b) == IF b THEN "true" ELSE "false"

\* classify_user_agent with the generic bot rule tested before the named
\* crawlers.
classify_generic_first(ua) ==
    IF ua = NaN THEN "unknown"
    ELSE LET l == Lower(ua) IN
         IF \/ Contains(l, <<"b", "o", "t">>)
            \/ Contains(l, <<"c", "r", "a", "w", "l", "e", "r">>)
            \/ Contains(l, <<"s", "p", "i", "d", "e", "r">>)
         THEN "other-bot"
         ELSE IF Contains(l, <<"g", "o", "o", "g", "l", "e">>) THEN "google"
         ELSE IF Contains(l, <<"b", "i", "n", "g">>) THEN "bing"
         ELSE IF Contains(l, <<"a", "m", "a", "z", "o", "n", "b", "o", "t">>)
         THEN "amazon"
         ELSE IF \/ Contains(l, <<"c", "h", "a", "t", "g", "p", "t">>)
                 \/ Contains(l, <<"o", "p", "e", "n", "a", "i">>)
         THEN "openai"
         ELSE "human"

\* classify_user_agent(ua): pd.isna first, then the membership tests on
\* ua.lower() in the order of the code.
classify_user_agent(ua) ==
    IF ua = NaN THEN "unknown"
    ELSE LET l == Lower(ua) IN
         IF \/ Contains(l, <<"g", "o", "o", "g", "l", "e", "b", "o", "t">>)
            \/ Contains(l, <<"g", "o", "o", "g", "l", "e">>)
         THEN "google"
         ELSE IF \/ Contains(l, <<"b", "i", "n", "g", "b", "o", "t">>)
                 \/ Contains(l, <<"b", "i", "n", "g">>)
         THEN "bing"
         ELSE IF Contains(l, <<"a", "m", "a", "z", "o", "n", "b", "o", "t">>)
         THEN "amazon"
         ELSE IF \/ Contains(l, <<"c", "h", "a", "t", "g", "p", "t">>)
                 \/ Contains(l, <<"o", "p", "e", "n", "a", "i">>)
         THEN "openai"
         ELSE IF \/ Contains(l, <<"b", "o", "t">>)
                 \/ Contains(l, <<"c", "r", "a", "w", "l", "e", "r">>)
                 \/ Contains(l, <<"s", "p", "i", "d", "e", "r">>)
         THEN "other-bot"
         ELSE "human"

-----------------------------------------------------------------------------
(* Inputs *)

\* The concatenation of a sequence of strings.
RECURSIVE Flatten(_)
Flatten(ss) == IF ss = <<>> THEN <<>> ELSE Head(ss) \o Flatten(Tail(ss))

MaxUrlLen == 5

MaxFrags == 3

\* Characters that steer urlparse: separators, a scheme letter, a bracket.
UrlAlphabet == {"/", "a", ":", "?", "#", ";", "["}

\* Pieces of attack signatures, whole, split and in capitals.
UrlFrags ==
    { <<"/">>, <<"x">>, <<".", "p", "h", "p">>, <<".", "P", "H", "P">>,
      <<"w", "p", "-", "a", "d", "m", "i", "n">>, <<"W", "p", "-">>,
      <<"a", "d", "m", "i", "n">>,
      <<"w", "p", "-", "i", "n", "c", "l", "u", "d", "e", "s">>,
      <<".", "e", "n", "v">>, <<".", "g", "i", "t">>, <<".", "p", "h">>,
      <<"p">> }

UrlInputs ==
    {NaN}
        \cup UNION {[1..k -> UrlAlphabet] : k \in 0..MaxUrlLen}
        \cup {Flatten(fs) : fs \in UNION {[1..k -> UrlFrags] : k \in 0..MaxFrags}}

\* Pieces of user-agent strings: the crawler names, whole, split and in
\* capitals, the generic bot words and a browser token.
UAFrags ==
    { <<"G", "o", "o", "g", "l", "e">>, <<"g", "o", "o">>, <<"g", "l", "e">>,
      <<"b", "o", "t">>, <<"B", "I", "N", "G">>,
      <<"a", "m", "a", "z", "o", "n">>, <<"c", "h", "a", "t", "g", "p", "t">>,
      <<"O", "p", "e", "n", "A", "I">>, <<"c", "r", "a", "w", "l", "e", "r">>,
      <<"S", "p", "i", "d", "e", "r">>,
      <<"M", "o", "z", "i", "l", "l", "a">>, <<"/">> }

UAInputs ==
    {NaN} \cup {Flatten(fs) : fs \in UNION {[1..k -> UAFrags] : k \in 0..MaxFrags}}

-----------------------------------------------------------------------------
(* Enrichment of one record's source_url *)

UrlIdle ==
    /\ source_url = <<>>
    /\ variant = "none"
    /\ normalized_url = <<>>
    /\ is_attack = "none"

\* dashboard.py: normalized_url, then is_php_attack of it.
EnrichDashboard ==
    /\ variant = "none"
    /\ variant' = "dashboard"
    /\ normalized_url' = normalize_url(source_url)
    /\ is_attack' = BoolStr(is_php_attack(normalize_url(source_url)))
    /\ UNCHANGED <<source_url, ua_vars, csv_vars, run, dash_vars, analyze_vars, scrape_vars>>

\* analyzer.py: normalized_url, then is_php of it.
EnrichAnalyzer ==
    /\ variant = "none"
    /\ variant' = "analyzer"
    /\ normalized_url' = normalize(source_url)
    /\ is_attack' = is_php(normalize(source_url))
    /\ UNCHANGED <<source_url, ua_vars, csv_vars, run, dash_vars, analyze_vars, scrape_vars>>

(* Classification of one record's user_agent *)

UAIdle == user_agent = NaN /\ ua_class = "none"

Classify ==
    /\ ua_class = "none"
    /\ ua_class' = classify_user_agent(user_agent)
    /\ UNCHANGED <<enrich_vars, user_agent, csv_vars, run, dash_vars, analyze_vars, scrape_vars>>

-----------------------------------------------------------------------------
(* The log file and the data frame read from it *)

\* A data frame of the two columns the aggregations group by. No aggregate
\* below reads the order of the rows, so a frame is kept as the number of
\* copies of each row.
Rows(df) == {r \in DOMAIN df : df[r] > 0}

RECURSIVE CountIn(_, _)
\* The number of rows of df, copies counted, that lie in the set S.
CountIn(df, S) ==
    IF S = {} THEN 0
    ELSE LET r == CHOOSE x \in S : TRUE IN df[r] + CountIn(df, S \ {r})

\* len(df)
Size(df) == CountIn(df, Rows(df))

\* df.groupby(col) drops the rows whose key is NaN.
GroupKeys(keys) == keys \ {NaN}

IP1 == <<"1", ".", "1", ".", "1", ".", "1">>

IP2 == <<"2", ".", "2", ".", "2", ".", "2">>

CsvIdle == csv_state = "absent" /\ csv_rows = <<>>

PipelineIdle ==
    /\ run = "idle"
    /\ ip_stats = <<>> /\ url_stats = <<>> /\ candidates = <<>>
    /\ ip_report = <<>> /\ url_report = <<>> /\ files = {}

-----------------------------------------------------------------------------
(* dashboard.py: the run of the script *)

BOT_THRESHOLD_URLS == 5

BOT_THRESHOLD_PHP == 3

\* safe_read_csv: a missing or unparsable file, or a frame without rows,
\* ends in the except clause, which returns an empty frame.
safe_read_csv_empty(state, rows) == state # "table" \/ Size(rows) = 0

\* The enrichment: raw_df gains the columns normalized_url and is_php_attack.
dash_enrich_row(r) ==
    [ ip             |-> r.ip,
      source_url     |-> r.source_url,
      normalized_url |-> normalize_url(r.source_url),
      is_php_attack  |-> is_php_attack(normalize_url(r.source_url)) ]

dash_enrich(df) ==
    [ e \in {dash_enrich_row(r) : r \in Rows(df)} |->
        df[[ip |-> e.ip, source_url |-> e.source_url]] ]

\* ip_stats["suspected_bot"]
dash_suspected_bot(unique_urls, php_attempts) ==
    unique_urls >= BOT_THRESHOLD_URLS \/ php_attempts >= BOT_THRESHOLD_PHP

dash_ip_row(total_hits, unique_urls, php_attempts) ==
    [ total_hits    |-> total_hits,
      unique_urls   |-> unique_urls,
      php_attempts  |-> php_attempts,
      suspected_bot |-> dash_suspected_bot(unique_urls, php_attempts) ]

\* One group g of raw_df.groupby("ip"): count of source_url skips NaN, nunique
\* of normalized_url, sum of is_php_attack.
dash_ip_agg(df, g) ==
    dash_ip_row(CountIn(df, {r \in g : r.source_url # NaN}),
                Cardinality({r.normalized_url : r \in g} \ {NaN}),
                CountIn(df, {r \in g : r.is_php_attack}))

dash_ip_stats(df) ==
    [ ip \in GroupKeys({r.ip : r \in Rows(df)}) |->
        dash_ip_agg(df, {r \in Rows(df) : r.ip = ip}) ]

\* One group g of raw_df.groupby("normalized_url").
dash_url_agg(df, g) ==
    [ hits       |-> CountIn(df, {r \in g : r.normalized_url # NaN}),
      unique_ips |-> Cardinality({r.ip : r \in g} \ {NaN}),
      bot_hits   |-> CountIn(df, {r \in g : r.is_php_attack}) ]

dash_url_stats(df) ==
    [ u \in GroupKeys({r.normalized_url : r \in Rows(df)}) |->
        dash_url_agg(df, {r \in Rows(df) : r.normalized_url = u}) ]

\* human_ips without the negation of the flag column dropped: every ip.
human_ips_unfiltered(stats) == DOMAIN stats

\* human_ips: the ip column of the rows of ip_stats not flagged.
human_ips(stats) == {ip \in DOMAIN stats : ~stats[ip].suspected_bot}

\* human_hits = raw_df[raw_df["ip"].isin(human_ips)]
human_hits(df, stats) == {r \in Rows(df) : r.ip \in human_ips(stats)}

\* One group g of human_hits.groupby("normalized_url").
dash_candidate_agg(df, g) ==
    [ hits       |-> CountIn(df, {r \in g : r.normalized_url # NaN}),
      unique_ips |-> Cardinality({r.ip : r \in g} \ {NaN}) ]

dash_candidates(df, stats) ==
    [ u \in GroupKeys({r.normalized_url : r \in human_hits(df, stats)}) |->
        dash_candidate_agg(
            df, {r \in human_hits(df, stats) : r.normalized_url = u}) ]

\* The script from the load to the candidate table; st.stop() on an empty
\* frame.
RunDashboard ==
    /\ run = "idle"
    /\ IF safe_read_csv_empty(csv_state, csv_rows)
       THEN /\ run' = "stopped"
            /\ UNCHANGED dash_vars
       ELSE /\ run' = "rendered"
            /\ ip_stats' = dash_ip_stats(dash_enrich(csv_rows))
            /\ url_stats' = dash_url_stats(dash_enrich(csv_rows))
            /\ candidates' = dash_candidates(dash_enrich(csv_rows), ip_stats')
    /\ UNCHANGED <<enrich_vars, ua_vars, csv_vars, analyze_vars, scrape_vars>>

MaxDashRows == 5

DashUrls ==
    { <<"/", "a">>, <<"/", "a", "/">>, <<"/", "b">>, <<"/", "c">>, <<"/", "d">>,
      <<"/", "x", ".", "p", "h", "p">> }

\* One IP asks for every URL, a second for three of them; one record lacks
\* its ip and one its source_url.
DashRowTypes ==
    [ip : {IP1}, source_url : DashUrls]
        \cup [ip : {IP2},
              source_url : {<<"/", "a">>, <<"/", "b">>,
                            <<"/", "x", ".", "p", "h", "p">>}]
        \cup { [ip |-> NaN, source_url |-> <<"/", "a">>],
               [ip |-> IP1, source_url |-> NaN] }

\* The 404 log gains a record before the file is read.
DashLogRow ==
    /\ run = "idle"
    /\ csv_state = "table"
    /\ Size(csv_rows) < MaxDashRows
    /\ \E r \in DashRowTypes : csv_rows' = [csv_rows EXCEPT ![r] = @ + 1]
    /\ UNCHANGED <<enrich_vars, ua_vars, csv_state, run, dash_vars, analyze_vars,
                   scrape_vars>>

-----------------------------------------------------------------------------
(* analyzer.py: analyze *)

\* Floats are kept in millionths, rounded to the nearest: 1.5 is 1500000.
\* math.log2 of the group sizes the row bound allows.
Log2Micro ==
    << 0, 1000000, 1584963, 2000000, 2321928, 2584963, 2807355, 3000000,
       3169925, 3321928, 3459432, 3584963 >>

\* The enrichment: df gains the columns normalized_url and is_php.
analyze_enrich_row(r) ==
    [ ip             |-> r.ip,
      source_url     |-> r.source_url,
      normalized_url |-> normalize(r.source_url),
      is_php         |-> is_php(normalize(r.source_url)) ]

analyze_enrich(df) ==
    [ e \in {analyze_enrich_row(r) : r \in Rows(df)} |->
        df[[ip |-> e.ip, source_url |-> e.source_url]] ]

\* value_counts of the normalized_url column of group g: NaN is dropped.
value_counts(df, g) ==
    [ u \in GroupKeys({r.normalized_url : r \in g}) |->
        CountIn(df, {r \in g : r.normalized_url = u}) ]

RECURSIVE PLogPSum(_, _, _)
\* sum(p * log2(p) for p in probs), negated, times n: the sum over the
\* distinct values u in S of counts[u] * (log2(n) - log2(counts[u])).
PLogPSum(counts, n, S) ==
    IF S = {} THEN 0
    ELSE LET u == CHOOSE x \in S : TRUE
         IN  counts[u] * (Log2Micro[n] - Log2Micro[counts[u]])
                 + PLogPSum(counts, n, S \ {u})

RECURSIVE Total(_, _)
Total(counts, S) ==
    IF S = {} THEN 0
    ELSE LET u == CHOOSE x \in S : TRUE IN counts[u] + Total(counts, S \ {u})

\* entropy(values), in millionths; the sum over no value is 0.
entropy(counts) ==
    IF DOMAIN counts = {} THEN 0
    ELSE (PLogPSum(counts, Total(counts, DOMAIN counts), DOMAIN counts)
             + Total(counts, DOMAIN counts) \div 2)
         \div Total(counts, DOMAIN counts)

\* round(x, 2) of a float in millionths, in hundredths: to the nearest, a tie
\* to the even one.
round2(x) ==
    IF x % 10000 > 5000 \/ (x % 10000 = 5000 /\ (x \div 10000) % 2 = 1)
    THEN x \div 10000 + 1
    ELSE x \div 10000

\* 0.5 * unique_urls + 1.5 * php_hits + 2.0 * ent, in millionths
bot_score(unique_urls, php_hits, ent) ==
    500000 * unique_urls + 1500000 * php_hits + 2 * ent

\* The verdict with a strict comparison.
analyze_suspected_bot_strict(score) == score > 10 * 1000000

\* bot_score >= 10
analyze_suspected_bot(score) == score >= 10 * 1000000

\* The row appended to ip_rows: the exported entropy and score are rounded,
\* the verdict reads the score as computed.
analyze_ip_row(total_hits, unique_urls, php_hits, ent) ==
    [ total_hits    |-> total_hits,
      unique_urls   |-> unique_urls,
      php_attempts  |-> php_hits,
      url_entropy   |-> round2(ent),
      bot_score     |-> round2(bot_score(unique_urls, php_hits, ent)),
      suspected_bot |->
          analyze_suspected_bot(bot_score(unique_urls, php_hits, ent)) ]

\* One group g of df.groupby("ip"): nunique of normalized_url, the sum of
\* is_php (NaN skipped), the entropy of normalized_url, len(g).
analyze_ip_agg(df, g) ==
    analyze_ip_row(CountIn(df, g),
                   Cardinality(DOMAIN value_counts(df, g)),
                   CountIn(df, {r \in g : r.is_php = "true"}),
                   entropy(value_counts(df, g)))

analyze_ip_report(df) ==
    [ ip \in GroupKeys({r.ip : r \in Rows(df)}) |->
        analyze_ip_agg(df, {r \in Rows(df) : r.ip = ip}) ]

\* One group g of df.groupby("normalized_url"): count and nunique of ip skip
\* NaN.
analyze_url_agg(df, g) ==
    [ total_hits |-> CountIn(df, {r \in g : r.ip # NaN}),
      unique_ips |-> Cardinality({r.ip : r \in g} \ {NaN}),
      php        |-> CountIn(df, {r \in g : r.is_php = "true"}) ]

analyze_url_report(df) ==
    [ u \in GroupKeys({r.normalized_url : r \in Rows(df)}) |->
        analyze_url_agg(df, {r \in Rows(df) : r.normalized_url = u}) ]

\* pd.read_csv raises on a missing file (FileNotFoundError) and on a file
\* without a header line (EmptyDataError).
read_csv_raises(state) == state # "table"

\* A source_url column with no str in any of its rows is a float column, and
\* its .str accessor raises AttributeError.
str_accessor_raises(df) ==
    Size(df) > 0 /\ \A r \in Rows(df) : r.normalized_url = NaN

\* analyze(): read, enrich, aggregate, then the two to_csv calls.
RunAnalyze ==
    /\ run = "idle"
    /\ IF \/ read_csv_raises(csv_state)
          \/ str_accessor_raises(analyze_enrich(csv_rows))
       THEN /\ run' = "raised"
            /\ UNCHANGED analyze_vars
       ELSE /\ run' = "written"
            /\ ip_report' = analyze_ip_report(analyze_enrich(csv_rows))
            /\ url_report' = analyze_url_report(analyze_enrich(csv_rows))
            /\ files' = {"404_ip_analysis.csv", "404_url_analysis.csv"}
    /\ UNCHANGED <<enrich_vars, ua_vars, csv_vars, dash_vars, scrape_vars>>

MaxAnalyzeRows == 8

AnalyzeUrls ==
    { <<"/", "a">>, <<"/", "b">>, <<"/", "x", ".", "p", "h", "p">>,
      <<"/", "y", ".", "p", "h", "p">> }

\* One IP asks for every URL, a second for two of them; one record lacks
\* its ip and one its source_url.
AnalyzeRowTypes ==
    [ip : {IP1}, source_url : AnalyzeUrls]
        \cup [ip : {IP2},
              source_url : {<<"/", "a">>, <<"/", "x", ".", "p", "h", "p">>}]
        \cup { [ip |-> NaN, source_url |-> <<"/", "a">>],
               [ip |-> IP1, source_url |-> NaN] }

\* The 404 log gains a record before the file is read.
AnalyzeLogRow ==
    /\ run = "idle"
    /\ csv_state = "table"
    /\ Size(csv_rows) < MaxAnalyzeRows
    /\ \E r \in AnalyzeRowTypes : csv_rows' = [csv_rows EXCEPT ![r] = @ + 1]
    /\ UNCHANGED <<enrich_vars, ua_vars, csv_state, run, dash_vars, analyze_vars,
                   scrape_vars>>

-----------------------------------------------------------------------------
(* real_scraper.py: the pagination loop of scrape_404s *)

MAX_EMPTY_PAGES == 5

MaxPages == 7

MaxRowsPerPage == 2

ScrapeIdle ==
    /\ page = 1
    /\ empty_streak = 0
    /\ all_rows = <<>>
    /\ visited = <<>>
    /\ exit = "idle"
    /\ out_csv = "absent"

\* parse_table(html) of page p with n rows in the table body.
parse_table(p, n) == [k \in 1..n |-> <<p, k>>]

\* if rows: all_rows.extend(rows)
extend_rows(acc, rows) == IF rows # <<>> THEN acc \o rows ELSE acc

\* The counter with the reset on a page with rows kept out.
streak_without_reset(streak, rows) == IF rows # <<>> THEN streak ELSE streak + 1

\* if rows: empty_streak = 0, else: empty_streak += 1
next_streak(streak, rows) == IF rows # <<>> THEN 0 ELSE streak + 1

\* The break of the else branch: no rows and the counter at its limit.
too_many_empty(streak, rows) ==
    rows = <<>> /\ next_streak(streak, rows) >= MAX_EMPTY_PAGES

\* The part of an iteration every page goes through: the table is found,
\* its rows are parsed and collected, the counter is updated.
CollectPage(n) ==
    /\ exit = "loop"
    /\ visited' = Append(visited, n)
    /\ all_rows' = extend_rows(all_rows, parse_table(page, n))
    /\ empty_streak' = next_streak(empty_streak, parse_table(page, n))

\* What follows the loop: the frame of all_rows is written.
SaveCsv == out_csv' = all_rows'

\* The login is confirmed and the loop is entered.
StartScrape ==
    /\ exit = "idle"
    /\ exit' = "loop"
    /\ UNCHANGED <<page, empty_streak, all_rows, visited, out_csv>>
    /\ UNCHANGED <<enrich_vars, ua_vars, csv_vars, run, dash_vars, analyze_vars>>

\* wait.until finds no table in time: TimeoutException leaves scrape_404s.
WaitTimesOut ==
    /\ exit = "loop"
    /\ exit' = "timeout"
    /\ UNCHANGED <<page, empty_streak, all_rows, visited, out_csv>>
    /\ UNCHANGED <<enrich_vars, ua_vars, csv_vars, run, dash_vars, analyze_vars>>

\* A page without rows that brings the counter to MAX_EMPTY_PAGES.
PageTooManyEmpty ==
    /\ CollectPage(0)
    /\ too_many_empty(empty_streak, parse_table(page, 0))
    /\ exit' = "too_many_empty"
    /\ SaveCsv
    /\ UNCHANGED page
    /\ UNCHANGED <<enrich_vars, ua_vars, csv_vars, run, dash_vars, analyze_vars>>

\* A page whose next button carries the class "disabled".
PageNextDisabled ==
    /\ \E n \in 0..MaxRowsPerPage :
          /\ CollectPage(n)
          /\ ~too_many_empty(empty_streak, parse_table(page, n))
    /\ exit' = "last_page"
    /\ SaveCsv
    /\ UNCHANGED page
    /\ UNCHANGED <<enrich_vars, ua_vars, csv_vars, run, dash_vars, analyze_vars>>

\* A page without a next button, or whose next button cannot be clicked.
PageNoNextButton ==
    /\ \E n \in 0..MaxRowsPerPage :
          /\ CollectPage(n)
          /\ ~too_many_empty(empty_streak, parse_table(page, n))
    /\ exit' = "no_next_button"
    /\ SaveCsv
    /\ UNCHANGED page
    /\ UNCHANGED <<enrich_vars, ua_vars, csv_vars, run, dash_vars, analyze_vars>>

\* A page whose next button is clicked: the loop goes on with the next page.
PageAdvance ==
    /\ page < MaxPages
    /\ \E n \in 0..MaxRowsPerPage :
          /\ CollectPage(n)
          /\ ~too_many_empty(empty_streak, parse_table(page, n))
    /\ page' = page + 1
    /\ UNCHANGED <<exit, out_csv>>
    /\ UNCHANGED <<enrich_vars, ua_vars, csv_vars, run, dash_vars, analyze_vars>>

-----------------------------------------------------------------------------
(* Specifications *)

InitUrl ==
    /\ source_url \in UrlInputs
    /\ variant = "none"
    /\ normalized_url = <<>>
    /\ is_attack = "none"
    /\ UAIdle /\ CsvIdle /\ PipelineIdle /\ ScrapeIdle

NextUrl == EnrichDashboard \/ EnrichAnalyzer

SpecUrl == InitUrl /\ [][NextUrl]_vars

InitUA ==
    /\ user_agent \in UAInputs
    /\ ua_class = "none"
    /\ UrlIdle /\ CsvIdle /\ PipelineIdle /\ ScrapeIdle

NextUA == Classify

SpecUA == InitUA /\ [][NextUA]_vars

InitDash ==
    /\ csv_state \in {"absent", "zero_bytes", "table"}
    /\ csv_rows = [r \in DashRowTypes |-> 0]
    /\ PipelineIdle
    /\ UrlIdle /\ UAIdle /\ ScrapeIdle

NextDash == DashLogRow \/ RunDashboard

SpecDash == InitDash /\ [][NextDash]_vars

InitAnalyze ==
    /\ csv_state \in {"absent", "zero_bytes", "table"}
    /\ csv_rows = [r \in AnalyzeRowTypes |-> 0]
    /\ PipelineIdle
    /\ UrlIdle /\ UAIdle /\ ScrapeIdle

NextAnalyze == AnalyzeLogRow \/ RunAnalyze

SpecAnalyze == InitAnalyze /\ [][NextAnalyze]_vars

InitScrape == ScrapeIdle /\ UrlIdle /\ UAIdle /\ CsvIdle /\ PipelineIdle

NextScrape ==
    \/ StartScrape
    \/ WaitTimesOut
    \/ PageTooManyEmpty
    \/ PageNextDisabled
    \/ PageNoNextButton
    \/ PageAdvance

SpecScrape == InitScrape /\ [][NextScrape]_vars

-----------------------------------------------------------------------------
(* Properties of the user-agent classifier *)

Categories ==
    {"human", "google", "bing", "amazon", "openai", "other-bot", "unknown"}

\* The ordered rule list of the classifier: the substrings of a rule and its
\* category.
UARules ==
    << [words |-> {<<"g", "o", "o", "g", "l", "e">>}, class |-> "google"],
       [words |-> {<<"b", "i", "n", "g">>}, class |-> "bing"],
       [words |-> {<<"a", "m", "a", "z", "o", "n", "b", "o", "t">>},
        class |-> "amazon"],
       [words |-> {<<"c", "h", "a", "t", "g", "p", "t">>,
                   <<"o", "p", "e", "n", "a", "i">>}, class |-> "openai"],
       [words |-> {<<"b", "o", "t">>, <<"c", "r", "a", "w", "l", "e", "r">>,
                   <<"s", "p", "i", "d", "e", "r">>}, class |-> "other-bot"] >>

RuleMatches(ua, k) == \E w \in UARules[k].words : Contains(Lower(ua), w)

FirstMatchClass(ua) ==
    IF ua = NaN THEN "unknown"
    ELSE IF \A k \in 1..Len(UARules) : ~RuleMatches(ua, k) THEN "human"
    ELSE UARules[CHOOSE k \in 1..Len(UARules) :
                    /\ RuleMatches(ua, k)
                    /\ \A j \in 1..(k - 1) : ~RuleMatches(ua, j)].class

\* C4: classify_user_agent returns, for a missing value and for every string,
\* one of the seven categories, and it is the category of the first rule of
\* the ordered list that matches the lower-cased string ("unknown" for a
\* missing value, "human" when no rule matches).
C4_FirstMatchWins ==
    ua_class # "none" =>
        /\ ua_class \in Categories
        /\ ua_class = FirstMatchClass(user_agent)

\* A string that matches the generic bot rule and, later in the string, a
\* named crawler, classified as the named crawler.
C4_Witness ==
    /\ ua_class = "google"
    /\ user_agent # NaN
    /\ RuleMatches(user_agent, 1)
    /\ RuleMatches(user_agent, 5)
    /\ SubSeq(user_agent, 1, 3) = <<"b", "o", "t">>

-----------------------------------------------------------------------------
(* Properties of the enrichment of a source_url *)

\* C5: the attack flag of an enriched record, in either module, is true
\* exactly when the normalized URL contains one of the five patterns,
\* letters compared without case.
C5_AttackFlagMatchesPatterns ==
    (variant # "none" /\ IsStr(normalized_url)) =>
        ((is_attack = "true") <=>
            \E pat \in AttackPatterns : Contains(Lower(normalized_url), pat))

\* C7: whatever the input, either normaliser returns a string, and when
\* urlparse raises that string is str() of the input.
C7_NormalizeReturnsString ==
    variant # "none" =>
        /\ IsStr(normalized_url)
        /\ urlparse_raises(source_url) => normalized_url = Str(source_url)

\* C8: for every URL string, normalising the normalised URL again returns
\* it unchanged, in either module.
C8_NormalizeIdempotent ==
    /\ (variant = "analyzer" /\ IsStr(source_url)) =>
           normalize(normalized_url) = normalized_url
    /\ (variant = "dashboard" /\ IsStr(source_url)) =>
           normalize_url(normalized_url) = normalized_url

-----------------------------------------------------------------------------
(* Properties of the dashboard's tables *)

NormOf(r) == normalize_url(r.source_url)

\* An IP is a suspected bot when it has at least 5 distinct normalized URLs
\* or at least 3 attack hits among the records of the log.
SuspectedBotIp(ip) ==
    \/ Cardinality({NormOf(r) : r \in {x \in Rows(csv_rows) : x.ip = ip}}) >= 5
    \/ CountIn(csv_rows, {r \in Rows(csv_rows) :
                             r.ip = ip /\ is_php_attack(NormOf(r))}) >= 3

\* The records of the log that carry an IP which is not a suspected bot.
NonBotRows == {r \in Rows(csv_rows) : r.ip # NaN /\ ~SuspectedBotIp(r.ip)}

\* C1: the candidate table has one row per normalized URL requested by some
\* IP that is not a suspected bot; its hits are the number of records with
\* that URL from such IPs and its unique_ips the number of such IPs, so no
\* record of a suspected-bot IP is counted and a URL that only suspected
\* bots requested has no row.
C1_CandidatesCountNonBotTraffic ==
    run = "rendered" =>
        /\ DOMAIN candidates = {NormOf(r) : r \in NonBotRows}
        /\ \A u \in DOMAIN candidates :
              /\ candidates[u].hits =
                     CountIn(csv_rows, {r \in NonBotRows : NormOf(r) = u})
              /\ candidates[u].unique_ips =
                     Cardinality({r.ip : r \in {x \in NonBotRows : NormOf(x) = u}})

\* A suspected bot and another IP requested the same URL, which is a
\* candidate counting only the other IP's records, and a URL that only the
\* suspected bot requested is no candidate.
C1_Witness ==
    /\ run = "rendered"
    /\ \E ip \in DOMAIN ip_stats :
          /\ ip_stats[ip].suspected_bot
          /\ \E u \in DOMAIN candidates :
                /\ \E r \in Rows(csv_rows) : r.ip = ip /\ NormOf(r) = u
                /\ candidates[u].hits < url_stats[u].hits
          /\ \E r \in Rows(csv_rows) :
                r.ip = ip /\ NormOf(r) \notin DOMAIN candidates

\* C2: no normalized URL of the candidate table has a contributing record,
\* among those of the non-bot IPs, that is flagged as an attack.
C2_NoAttackUrlAmongCandidates ==
    run = "rendered" =>
        \A u \in DOMAIN candidates :
            ~\E r \in NonBotRows : NormOf(r) = u /\ is_php_attack(NormOf(r))

\* C3: total_hits summed over the per-IP rows, and summed over the per-URL
\* rows, equals the number of input records, in the dashboard and in
\* analyze.
C3_HitsSumToRecordCount ==
    /\ run = "rendered" =>
           /\ Total([ip \in DOMAIN ip_stats |-> ip_stats[ip].total_hits],
                    DOMAIN ip_stats) = Size(csv_rows)
           /\ Total([u \in DOMAIN url_stats |-> url_stats[u].hits],
                    DOMAIN url_stats) = Size(csv_rows)
    /\ run = "written" =>
           /\ Total([ip \in DOMAIN ip_report |-> ip_report[ip].total_hits],
                    DOMAIN ip_report) = Size(csv_rows)
           /\ Total([u \in DOMAIN url_report |-> url_report[u].total_hits],
                    DOMAIN url_report) = Size(csv_rows)

-----------------------------------------------------------------------------
(* Properties of analyze *)

\* The score of an IP as computed, before any rounding, in millionths.
UnroundedScore(ip) ==
    bot_score(
        Cardinality(GroupKeys({normalize(r.source_url) :
                                  r \in {x \in Rows(csv_rows) : x.ip = ip}})),
        CountIn(csv_rows, {r \in Rows(csv_rows) :
                              r.ip = ip /\ is_php(normalize(r.source_url)) = "true"}),
        entropy(value_counts(analyze_enrich(csv_rows),
                             {r \in Rows(analyze_enrich(csv_rows)) : r.ip = ip})))

\* C6 as stated: an IP is flagged exactly when its unrounded score is
\* strictly greater than 10.
C6_FlaggedIffScoreAbove10 ==
    run = "written" =>
        \A ip \in DOMAIN ip_report :
            ip_report[ip].suspected_bot <=> UnroundedScore(ip) > 10 * 1000000

\* C6, amended: an IP is flagged exactly when its unrounded score is at
\* least 10; the exported bot_score is that score rounded to hundredths and
\* plays no part in the verdict.
C6_FlaggedIffScoreAtLeast10 ==
    run = "written" =>
        \A ip \in DOMAIN ip_report :
            /\ ip_report[ip].suspected_bot <=> UnroundedScore(ip) >= 10 * 1000000
            /\ ip_report[ip].bot_score = round2(UnroundedScore(ip))

\* An IP whose score is exactly 10 is flagged, and another score that is
\* exported as 10.0 after rounding is flagged on its unrounded value.
C6_Witness ==
    /\ run = "written"
    /\ \E ip \in DOMAIN ip_report :
          UnroundedScore(ip) = 10 * 1000000 /\ ip_report[ip].suspected_bot

\* C9: when the source is absent or holds no record, a run of analyze ends
\* with neither report file written.
C9_EmptySourceWritesNoReport ==
    (run # "idle" /\ (csv_state # "table" \/ Size(csv_rows) = 0)) => files = {}

-----------------------------------------------------------------------------
(* Properties of the pagination loop *)

RECURSIVE RowsOfPages(_, _)
\* The rows of the pages visited, page after page, the first being page p.
RowsOfPages(counts, p) ==
    IF counts = <<>> THEN <<>>
    ELSE parse_table(p, Head(counts)) \o RowsOfPages(Tail(counts), p + 1)

\* The number of pages without rows at the end of the pages visited.
TrailingEmpty(counts) ==
    Cardinality({k \in 1..Len(counts) : \A j \in k..Len(counts) : counts[j] = 0})

\* C10: all_rows holds the rows of every page visited, the last included,
\* whenever the loop is at or past a stop test; empty_streak is the number
\* of row-less pages at the end of the pages visited and never exceeds
\* MAX_EMPTY_PAGES; the stop on empty pages happens only with exactly
\* MAX_EMPTY_PAGES row-less pages in a row; and the CSV is written only
\* after one of the three exits of the loop, with all the rows collected.
C10_PaginationLoop ==
    /\ all_rows = RowsOfPages(visited, 1)
    /\ empty_streak = TrailingEmpty(visited)
    /\ empty_streak <= MAX_EMPTY_PAGES
    /\ exit = "too_many_empty" => TrailingEmpty(visited) = MAX_EMPTY_PAGES
    /\ out_csv # "absent" =>
           /\ exit \in {"too_many_empty", "last_page", "no_next_button"}
           /\ out_csv = all_rows
    /\ exit \in {"too_many_empty", "last_page", "no_next_button"} =>
           out_csv = all_rows

\* The loop stopped on empty pages after a page with rows, and the rows were
\* written.
C10_Witness ==
    /\ exit = "too_many_empty"
    /\ out_csv # "absent"
    /\ out_csv # <<>>
    /\ Len(visited) > MAX_EMPTY_PAGES

====
